---- MODULE Spec2Model ----
(***************************************************************************)
(* A model of the two CSV utilities of sql-text-helper:                    *)
(*   csv_to_mysql.py     column extractor / update-script generator / CLI  *)
(*   deduplicate_csv.py  row deduplicator                                  *)
(* Text is modelled as a sequence of one-character strings, so that        *)
(* lower(), strip(), replace(), join(), split() and startswith() are       *)
(* computed character by character as Python computes them.                *)
(***************************************************************************)
EXTENDS Integers, Sequences, FiniteSets, TLC

VARIABLES
    csv_file,   \* path given as the input CSV file
    present,    \* whether a file exists at csv_file
    records,    \* the records of that file as the CSV tokenizer yields them
    dirs,       \* the directories that exist
    files,      \* path -> text, the files written by save_to_file
    tables,     \* path -> records, the files written by DataFrame.to_csv
    call        \* the operation this run calls, its arguments and its outcome

vars == <<csv_file, present, records, dirs, files, tables, call>>

----------------------------------------------------------------------------
(* Text literals.                                                          *)

s_empty == <<>>
s_id == <<"i", "d">>
s_Product_Code == <<"P", "r", "o", "d", "u", "c", "t", " ", "C", "o", "d", "e">>
s_product_code == <<"p", "r", "o", "d", "u", "c", "t", "_", "c", "o", "d", "e">>
s_PRODUCT_CODE == <<"P", "R", "O", "D", "U", "C", "T", " ", "C", "O", "D", "E">>
s_productcode == <<"p", "r", "o", "d", "u", "c", "t", "c", "o", "d", "e">>
s_sp == <<" ">>
s_a_padded == <<" ", "a", " ">>
s_a_comma_b == <<"a", ",", " ", "b">>
s_1 == <<"1">>
s_01 == <<"0", "1">>
s_x == <<"x">>
s_user == <<"u", "s", "e", "r">>
s_None == <<"N", "o", "n", "e">>
s_update_script == <<"u", "p", "d", "a", "t", "e", "_", "s", "c", "r", "i", "p", "t">>
s_Update_Script == <<"U", "p", "d", "a", "t", "e", "_", "S", "c", "r", "i", "p", "t">>
s_no_quotes == <<"-", "-", "n", "o", "-", "q", "u", "o", "t", "e", "s">>
s_output == <<"o", "u", "t", "p", "u", "t">>
s_output_txt == <<"o", "u", "t", "p", "u", "t", ".", "t", "x", "t">>
s_output_r_txt == <<"o", "u", "t", "p", "u", "t", "/", "r", ".", "t", "x", "t">>
s_test_csv == <<"t", "e", "s", "t", ".", "c", "s", "v">>
s_data_test_csv == <<"d", "a", "t", "a", "/", "t", "e", "s", "t", ".", "c", "s", "v">>
s_out == <<"o", "u", "t">>
s_deduplicated == <<"_", "d", "e", "d", "u", "p", "l", "i", "c", "a", "t", "e", "d", "_">>
s_csv_ext == <<".", "c", "s", "v">>
s_timestamp == <<"2", "0", "2", "3", "0", "1", "0", "1", "_", "1", "2", "3", "4", "5", "6">>
s_sep == <<",", " ">>
s_nl == <<"\n">>
s_quote == <<"'">>
s_dquote == <<"\"">>
s_lparen == <<"(">>
s_rparen == <<")">>
s_lbracket == <<"[">>
s_rbracket == <<"]">>
s_semicolon == <<";">>
s_Update == <<"U", "p", "d", "a", "t", "e", " ">>
s_set == <<" ", "s", "e", "t", " ">>
s_where == <<" ", "w", "h", "e", "r", "e", " ", "i", "d", " ", "=", " ">>
s_eq == <<" ", "=", " ">>
s_slash == <<"/">>
s_dot_0 == <<".", "0">>
s_tuple_a == <<"(", "a", ")">>

----------------------------------------------------------------------------
(* Python's str operations, character by character.                        *)

UpperCase == <<"A","B","C","D","E","F","G","H","I","J","K","L","M",
               "N","O","P","Q","R","S","T","U","V","W","X","Y","Z">>
LowerCase == <<"a","b","c","d","e","f","g","h","i","j","k","l","m",
               "n","o","p","q","r","s","t","u","v","w","x","y","z">>

\* str.lower() of one character
LowerOf == [c \in {UpperCase[i] : i \in 1..Len(UpperCase)} |->
               LowerCase[CHOOSE i \in 1..Len(UpperCase) : UpperCase[i] = c]]

LowerChar(c) == IF c \in DOMAIN LowerOf THEN LowerOf[c] ELSE c

\* str.lower()
Lower(s) == [i \in 1..Len(s) |-> LowerChar(s[i])]

\* str.replace(' ', '')
RemoveSpaces(s) == SelectSeq(s, LAMBDA c : c # " ")

\* str.strip(): whitespace removed from both ends
RECURSIVE LStrip(_)
LStrip(s) == IF s # <<>> /\ Head(s) = " " THEN LStrip(Tail(s)) ELSE s

RECURSIVE RStrip(_)
RStrip(s) ==
    IF s # <<>> /\ s[Len(s)] = " " THEN RStrip(SubSeq(s, 1, Len(s) - 1)) ELSE s

Strip(s) == RStrip(LStrip(s))

\* str.startswith(p)
StartsWith(s, p) == Len(s) >= Len(p) /\ SubSeq(s, 1, Len(p)) = p

\* sep.join(parts)
RECURSIVE Join(_, _)
Join(parts, sep) ==
    IF parts = <<>> THEN <<>>
    ELSE IF Len(parts) = 1 THEN parts[1]
    ELSE parts[1] \o sep \o Join(Tail(parts), sep)

\* whether needle occurs in s
Contains(s, needle) ==
    \E i \in 1..(Len(s) - Len(needle) + 1) :
        SubSeq(s, i, i + Len(needle) - 1) = needle

\* str.split(sep): cut at each leftmost occurrence of sep
RECURSIVE Split(_, _)
Split(s, sep) ==
    IF ~Contains(s, sep) THEN <<s>>
    ELSE LET i == CHOOSE k \in 1..(Len(s) - Len(sep) + 1) :
                      /\ SubSeq(s, k, k + Len(sep) - 1) = sep
                      /\ \A j \in 1..(k - 1) : SubSeq(s, j, j + Len(sep) - 1) # sep
         IN <<SubSeq(s, 1, i - 1)>> \o Split(SubSeq(s, i + Len(sep), Len(s)), sep)

\* [f(x) for x in xs]
Map(xs, F(_)) == [i \in 1..Len(xs) |-> F(xs[i])]

----------------------------------------------------------------------------
(* Python values: a str, None, or a list of str.                           *)

Str(s) == [t |-> "str", s |-> s, l |-> <<>>]
None == [t |-> "none", s |-> <<>>, l |-> <<>>]
List(l) == [t |-> "list", s |-> <<>>, l |-> l]

\* truth value of `if v:` / `if not v:`
Truthy(v) ==
    CASE v.t = "str" -> v.s # <<>>
      [] v.t = "list" -> v.l # <<>>
      [] OTHER -> FALSE

\* repr() of a str without backslashes: double quotes when it holds a single
\* quote and no double quote, single quotes otherwise
Repr(s) ==
    IF Contains(s, s_quote) /\ ~Contains(s, s_dquote)
    THEN s_dquote \o s \o s_dquote
    ELSE s_quote \o s \o s_quote

\* format(v) inside an f-string
Format(v) ==
    CASE v.t = "str" -> v.s
      [] v.t = "none" -> s_None
      [] OTHER -> s_lbracket \o Join(Map(v.l, Repr), s_sep) \o s_rbracket

----------------------------------------------------------------------------
(* Outcomes of a function body: a returned value, a reported failure that   *)
(* returns None, or an exception on its way out.                           *)

Return(v) == [exc |-> "none", failure |-> "none", ret |-> v]
Fail(kind) == [exc |-> "none", failure |-> kind, ret |-> None]
Raise(e) == [exc |-> e, failure |-> e, ret |-> None]

\* the exceptions `except Exception` catches: every one the bodies can raise
ExceptException(e) == e \in {"FileNotFoundError", "TypeError", "AttributeError",
                             "KeyError", "IndexError"}

\* a handler that catches the missing file only
TryExcept_OnlyFileNotFound(o) ==
    IF o.exc = "FileNotFoundError" THEN Fail(o.exc) ELSE o

\* try: <body> except FileNotFoundError: ... return None
\*             except Exception as e: ... return None
TryExcept(o) ==
    IF o.exc = "none" THEN o
    ELSE IF o.exc = "FileNotFoundError" \/ ExceptException(o.exc) THEN Fail(o.exc)
    ELSE o

----------------------------------------------------------------------------
(* csv.DictReader over the records of a file.                              *)

\* the elements of s, each kept at its first occurrence only
RECURSIVE Unique(_)
Unique(s) ==
    IF s = <<>> THEN <<>>
    ELSE LET r == Unique(SubSeq(s, 1, Len(s) - 1))
         IN IF \E i \in 1..Len(r) : r[i] = s[Len(s)] THEN r ELSE Append(r, s[Len(s)])

\* reader.fieldnames: the first record, None for a file with no record
fieldnames(recs) == IF recs = <<>> THEN None ELSE List(recs[1])

\* the records DictReader turns into rows: those after the header, blank ones skipped
DataRecords(recs) ==
    IF recs = <<>> THEN <<>> ELSE SelectSeq(Tail(recs), LAMBDA r : r # <<>>)

LastIndex(fn, k) ==
    CHOOSE i \in 1..Len(fn) : fn[i] = k /\ \A j \in (i + 1)..Len(fn) : fn[j] # k

\* one row: dict(zip(fieldnames, row)), then restkey None -> the surplus fields of a
\* long row, or restval None for the missing fields of a short row; a repeated
\* column name keeps its first position and its last value
DictRow(fn, row) ==
    LET item(k) == [key |-> Str(k),
                    value |-> IF LastIndex(fn, k) <= Len(row)
                              THEN Str(row[LastIndex(fn, k)]) ELSE None]
        base == Map(Unique(fn), item)
    IN IF Len(fn) < Len(row)
       THEN Append(base, [key |-> None,
                          value |-> List(SubSeq(row, Len(fn) + 1, Len(row)))])
       ELSE base

\* for row in reader
DictRows(recs) ==
    IF recs = <<>> THEN <<>>
    ELSE Map(DataRecords(recs), LAMBDA r : DictRow(recs[1], r))

HasKey(d, k) == \E i \in 1..Len(d) : d[i].key = k
Get(d, k) == d[CHOOSE i \in 1..Len(d) : d[i].key = k].value

----------------------------------------------------------------------------
(* csv_column_to_mysql_tuple                                               *)

\* for col in fieldnames: if <hit>: actual_column = col; break
\* (hit[i] is the value of the condition on the i-th name)
FirstWhere(fn, hit) ==
    IF \E i \in 1..Len(fn) : hit[i]
    THEN Str(fn[CHOOSE i \in 1..Len(fn) : hit[i] /\ \A j \in 1..(i - 1) : ~hit[j]])
    ELSE None

\* pass 1: same text in lower case
ExactMatch(col, column_name) == Lower(col) = Lower(column_name)

\* a second pass that keeps the spaces
LooseMatch_KeepsSpaces(col, column_name) == Lower(col) = Lower(column_name)

\* pass 2: same text in lower case with the spaces removed
LooseMatch(col, column_name) ==
    RemoveSpaces(Lower(col)) = RemoveSpaces(Lower(column_name))

\* actual_column after the two passes
FindColumn(fn, column_name) ==
    LET exact == FirstWhere(fn, [i \in 1..Len(fn) |-> ExactMatch(fn[i], column_name)])
    IN IF ~Truthy(exact)
       THEN FirstWhere(fn, [i \in 1..Len(fn) |-> LooseMatch(fn[i], column_name)])
       ELSE exact

\* values stripped, the empty ones kept
ExtractValues_KeepsEmpty(cells) == Map(cells, LAMBDA c : Strip(c.s))

\* the values kept: stripped, the empty ones dropped
ExtractValues(cells) ==
    SelectSeq(Map(cells, LAMBDA c : Strip(c.s)), LAMBDA v : v # <<>>)

\* "(" + ", ".join(...) + ")"
FormatTuple(values, add_quotes) ==
    IF add_quotes
    THEN s_lparen \o Join(Map(values, LAMBDA v : s_quote \o v \o s_quote), s_sep) \o s_rparen
    ELSE s_lparen \o Join(values, s_sep) \o s_rparen

\* the body of the try block
ExtractBody(exists, recs, column_name, add_quotes) ==
    IF ~exists THEN Raise("FileNotFoundError")
    ELSE IF fieldnames(recs).t = "none" THEN Raise("TypeError")
    ELSE LET fn == fieldnames(recs).l
             actual_column == FindColumn(fn, column_name)
         IN IF ~Truthy(actual_column) THEN Fail("ColumnNotFound")
            ELSE LET cells == Map(DictRows(recs), LAMBDA row : Get(row, actual_column))
                 IN IF \E i \in 1..Len(cells) : cells[i].t = "none"
                    THEN Raise("AttributeError")
                    ELSE IF ExtractValues(cells) = <<>> THEN Fail("NoValues")
                    ELSE Return(Str(FormatTuple(ExtractValues(cells), add_quotes)))

csv_column_to_mysql_tuple(exists, recs, column_name, add_quotes) ==
    TryExcept(ExtractBody(exists, recs, column_name, add_quotes))

----------------------------------------------------------------------------
(* csv_to_mysql_update_script                                              *)

\* a SET clause that lists `id` too
SetClause_WithId(row) ==
    Join(Map(row, LAMBDA it : Format(it.key) \o s_eq \o Format(it.value)), s_sep)

\* ", ".join([f"{col} = {value}" for col, value in row.items() if col != 'id'])
SetClause(row) ==
    Join(Map(SelectSeq(row, LAMBDA it : it.key # Str(s_id)),
             LAMBDA it : Format(it.key) \o s_eq \o Format(it.value)),
         s_sep)

\* f"Update {table_name} set {set_clause} where id = {row['id']};"
UpdateStatement(row, table_name) ==
    s_Update \o table_name \o s_set \o SetClause(row) \o s_where
        \o Format(Get(row, Str(s_id))) \o s_semicolon

UpdateBody(exists, recs, table_name) ==
    IF ~exists THEN Raise("FileNotFoundError")
    ELSE LET rows == DictRows(recs)
         IN IF \E i \in 1..Len(rows) : ~HasKey(rows[i], Str(s_id))
            THEN Raise("KeyError")
            ELSE Return(Str(Join(Map(rows, LAMBDA row : UpdateStatement(row, table_name)),
                                 s_nl)))

csv_to_mysql_update_script(exists, recs, table_name) ==
    TryExcept(UpdateBody(exists, recs, table_name))

----------------------------------------------------------------------------
(* os.path and the file system.                                            *)

\* the positions of "/" in p
Slashes(p) == {i \in 1..Len(p) : p[i] = "/"}
LastSlash(p) == IF Slashes(p) = {} THEN 0 ELSE CHOOSE i \in Slashes(p) : \A j \in Slashes(p) : j <= i

\* str.rstrip('/')
RECURSIVE RStripSlash(_)
RStripSlash(s) ==
    IF s # <<>> /\ s[Len(s)] = "/" THEN RStripSlash(SubSeq(s, 1, Len(s) - 1)) ELSE s

\* os.path.dirname: the text up to the last "/", its trailing slashes removed
\* unless it is slashes only
dirname(p) ==
    LET head == SubSeq(p, 1, LastSlash(p))
    IN IF head # <<>> /\ \E i \in 1..Len(head) : head[i] # "/"
       THEN RStripSlash(head) ELSE head

\* os.path.basename: the text after the last "/"
basename(p) == SubSeq(p, LastSlash(p) + 1, Len(p))

\* os.path.splitext(name)[0] of a name without "/": the text before the last ".",
\* unless only dots come before it
splitext_root(name) ==
    LET dots == {i \in 1..Len(name) : name[i] = "."}
        last == CHOOSE i \in dots : \A j \in dots : j <= i
    IN IF dots = {} THEN name
       ELSE IF \E i \in 1..(last - 1) : name[i] # "." THEN SubSeq(name, 1, last - 1)
       ELSE name

\* os.path.join(a, b)
join(a, b) ==
    IF StartsWith(b, s_slash) THEN b
    ELSE IF a = <<>> \/ a[Len(a)] = "/" THEN a \o b
    ELSE a \o s_slash \o b

\* d and the directories above it
Ancestors(d) ==
    {SubSeq(d, 1, i - 1) : i \in {j \in Slashes(d) : j > 1}} \cup {d}

\* os.makedirs(d, exist_ok=True): raises FileNotFoundError for the empty path
makedirs_fails(d) == d = <<>>

\* f with path p set to v
Put(f, p, v) == [q \in DOMAIN f \cup {p} |-> IF q = p THEN v ELSE f[q]]

----------------------------------------------------------------------------
(* save_to_file                                                            *)

\* the file system after the call, and the failure it printed ("none" when saved)
save_to_file(content, output_file, ds, fs) ==
    IF makedirs_fails(dirname(output_file))
    THEN [dirs |-> ds, files |-> fs, failure |-> "FileNotFoundError", exc |-> "none"]
    ELSE [dirs |-> ds \cup Ancestors(dirname(output_file)),
          files |-> Put(fs, output_file, content),
          failure |-> "none", exc |-> "none"]

----------------------------------------------------------------------------
(* main                                                                    *)

\* list.remove(x): the first occurrence taken out
RemoveFirst(xs, x) ==
    LET i == CHOOSE k \in 1..Len(xs) : xs[k] = x /\ \A j \in 1..(k - 1) : xs[j] # x
    IN SubSeq(xs, 1, i - 1) \o SubSeq(xs, i + 1, Len(xs))

IsIn(xs, x) == \E i \in 1..Len(xs) : xs[i] = x

\* args once the --no-quotes flag is removed
ArgsOf(argv) ==
    IF IsIn(Tail(argv), s_no_quotes) THEN RemoveFirst(Tail(argv), s_no_quotes)
    ELSE Tail(argv)

\* whether the last argument is taken as the output file
TakesOutput(args) == Len(args) > 1 /\ StartsWith(args[Len(args)], s_output)

ColumnNameOf(args) ==
    IF TakesOutput(args) THEN Join(SubSeq(args, 1, Len(args) - 1), s_sp)
    ELSE Join(args, s_sp)

OutputFileOf(args) == IF TakesOutput(args) THEN Str(args[Len(args)]) ELSE None

\* the table name taken from the last argument
TableNameOf_Last(args) == args[Len(args)]

\* table_name = args[0]
TableNameOf(args) == args[1]

\* saving whenever an output file was given
ShouldSave_IgnoresResult(result, output_file) == Truthy(output_file)

\* if result: if output_file: save_to_file(result, output_file)
ShouldSave(result, output_file) == Truthy(result) /\ Truthy(output_file)

\* argv is sys.argv[1:]; main's outcome and the file system it leaves
main(argv, exists, recs, ds, fs) ==
    IF Len(argv) < 2
    THEN [usage |-> TRUE, exc |-> "none", mode |-> "none", result |-> None,
          printed |-> FALSE, saved |-> FALSE, dirs |-> ds, files |-> fs]
    ELSE IF ArgsOf(argv) = <<>>
    THEN [usage |-> FALSE, exc |-> "IndexError", mode |-> "none", result |-> None,
          printed |-> FALSE, saved |-> FALSE, dirs |-> ds, files |-> fs]
    ELSE LET args == ArgsOf(argv)
             add_quotes == ~IsIn(Tail(argv), s_no_quotes)
             column_name == ColumnNameOf(args)
             output_file == OutputFileOf(args)
             update == Lower(column_name) = s_update_script
             result == IF update
                       THEN csv_to_mysql_update_script(exists, recs, TableNameOf(args)).ret
                       ELSE csv_column_to_mysql_tuple(exists, recs, column_name,
                                                      add_quotes).ret
             saves == ShouldSave(result, output_file)
             after == IF saves THEN save_to_file(result.s, output_file.s, ds, fs)
                      ELSE [dirs |-> ds, files |-> fs]
         IN [usage |-> FALSE, exc |-> "none",
             mode |-> IF update THEN "update" ELSE "extract",
             column_name |-> column_name, add_quotes |-> add_quotes,
             table_name |-> IF update THEN Str(TableNameOf(args)) ELSE None,
             output_file |-> output_file,
             result |-> result, printed |-> Truthy(result), saved |-> saves,
             dirs |-> after.dirs, files |-> after.files]

----------------------------------------------------------------------------
(* pandas, for files whose non-blank records all have one field per header  *)
(* column, the header's names distinct and not empty.                      *)

Digits == <<"0", "1", "2", "3", "4", "5", "6", "7", "8", "9">>
DigitOf == [c \in {Digits[i] : i \in 1..Len(Digits)} |->
               (CHOOSE i \in 1..Len(Digits) : Digits[i] = c) - 1]

\* text the parser reads as an integer
IsIntLiteral(s) == s # <<>> /\ \A i \in 1..Len(s) : s[i] \in DOMAIN DigitOf

RECURSIVE ParseInt(_)
ParseInt(s) ==
    IF s = <<>> THEN 0
    ELSE 10 * ParseInt(SubSeq(s, 1, Len(s) - 1)) + DigitOf[s[Len(s)]]

RECURSIVE IntText(_)
IntText(n) ==
    IF n < 10 THEN <<Digits[n + 1]>>
    ELSE IntText(n \div 10) \o <<Digits[(n % 10) + 1]>>

NaN == [k |-> "nan", n |-> 0, s |-> <<>>]

\* the dtype inferred for a column from its fields: integers when every field is an
\* integer literal, floats when the fields are integer literals or empty, text
\* otherwise and for a column of no rows
InferDtype(fields) ==
    IF fields = <<>> THEN "object"
    ELSE IF \A i \in 1..Len(fields) : fields[i] = <<>> \/ IsIntLiteral(fields[i])
    THEN IF \E i \in 1..Len(fields) : fields[i] = <<>> THEN "float64" ELSE "int64"
    ELSE "object"

\* a field as the frame holds it: an empty field is NaN, a number in a numeric column
\* is its value, text stays as read
ParseField(dtype, field) ==
    IF field = <<>> THEN NaN
    ELSE IF dtype = "object" THEN [k |-> "str", n |-> 0, s |-> field]
    ELSE [k |-> "num", n |-> ParseInt(field), s |-> <<>>]

\* pd.read_csv: blank lines skipped, the first record the header
read_csv(exists, recs) ==
    LET lines == SelectSeq(recs, LAMBDA r : r # <<>>)
        columns == lines[1]
        data == Tail(lines)
        dtypes == [i \in 1..Len(columns) |-> InferDtype(Map(data, LAMBDA r : r[i]))]
    IN IF ~exists THEN [exc |-> "FileNotFoundError"]
       ELSE IF lines = <<>> THEN [exc |-> "EmptyDataError"]
       ELSE [exc |-> "none", columns |-> columns, dtypes |-> dtypes,
             rows |-> Map(data, LAMBDA r :
                              [i \in 1..Len(columns) |-> ParseField(dtypes[i], r[i])])]

\* df.drop_duplicates(): of rows equal in every column the first is kept
drop_duplicates(df) == [df EXCEPT !.rows = Unique(df.rows)]

\* a value as to_csv writes it
WriteField(dtype, v) ==
    IF v.k = "nan" THEN <<>>
    ELSE IF v.k = "str" THEN v.s
    ELSE IF dtype = "float64" THEN IntText(v.n) \o s_dot_0
    ELSE IntText(v.n)

\* df.to_csv(path, index=False): the header, then one record per row
to_csv(df) ==
    <<df.columns>> \o Map(df.rows, LAMBDA row :
                              [i \in 1..Len(df.columns) |-> WriteField(df.dtypes[i], row[i])])

----------------------------------------------------------------------------
(* deduplicate_csv                                                         *)

\* f"{input_filename}_deduplicated_{timestamp}.csv"
OutputFilename(input_file, timestamp) ==
    splitext_root(basename(input_file)) \o s_deduplicated \o timestamp \o s_csv_ext

\* output_dir after `if output_dir is None`
OutputDir(input_file, output_dir) ==
    IF output_dir.t = "none" THEN dirname(input_file) ELSE output_dir.s

deduplicate_csv(input_file, output_dir, timestamp, exists, recs, ds, tbls) ==
    LET df == read_csv(exists, recs)
        dir == OutputDir(input_file, output_dir)
        output_path == join(dir, OutputFilename(input_file, timestamp))
    IN IF df.exc # "none"
       THEN [exc |-> df.exc, ret |-> None, dirs |-> ds, tables |-> tbls]
       ELSE IF makedirs_fails(dir)
       THEN [exc |-> "FileNotFoundError", ret |-> None, dirs |-> ds, tables |-> tbls]
       ELSE [exc |-> "none", ret |-> Str(output_path),
             dirs |-> ds \cup Ancestors(dir),
             tables |-> Put(tbls, output_path, to_csv(drop_duplicates(df))),
             total_rows |-> Len(df.rows),
             unique_rows |-> Len(drop_duplicates(df).rows),
             duplicates |-> Len(df.rows) - Len(drop_duplicates(df).rows)]

----------------------------------------------------------------------------
(* Bounds and the inputs drawn within them.                                *)

MaxRows == 2        \* records after the header

SeqsUpTo(S, n) == UNION {[1..k -> S] : k \in 0..n}

\* column names: `id`, and a name with a space and capitals
Names == {s_id, s_Product_Code}

\* field values: empty, blank, padded, holding the separator ", "
Values == {s_empty, s_sp, s_a_padded, s_a_comma_b}

\* a header or a record holds no, one or two fields
Fields(S) == SeqsUpTo(S, Cardinality(Names))

\* a file: no record at all, or a header record followed by records that may be
\* blank, shorter or longer than the header
CsvFiles ==
    {<<>>} \cup {<<h>> \o rs : h \in Fields(Names),
                               rs \in SeqsUpTo(Fields(Values), MaxRows)}

ColumnRefs == {s_id, s_product_code, s_PRODUCT_CODE, s_productcode}
TableNames == {s_user}

MaxArgs == 2        \* command-line arguments after the CSV file

\* command-line words: a column reference, the update-script word, the flag, and two
\* output paths, one bare and one under a directory
Tokens == {s_productcode, s_Update_Script, s_no_quotes, s_output_txt, s_output_r_txt}

Contents == {s_tuple_a, s_x}
OutputFiles == {s_output_txt, s_output_r_txt}
InputFiles == {s_test_csv, s_data_test_csv}
OutputDirs == {None, Str(s_out)}
Timestamps == {s_timestamp}

\* files both tools can read: an update-script table, a column with a repeated value
\* and a blank line, a header alone, and a file with no record
SampleFiles ==
    { << <<s_id, s_Product_Code>>, <<s_1, s_a_padded>>, <<s_01, s_a_comma_b>> >>,
      << <<s_Product_Code>>, <<s_a_padded>>, <<>>, <<s_a_padded>> >>,
      << <<s_id>> >>,
      <<>> }

\* field values for the deduplicator: empty, two spellings of one number, text
DedupValues == {s_empty, s_1, s_01, s_x}

\* a header and up to MaxRows + 1 records, each blank or with one field per column
DedupFilesUnder(h) ==
    {<<h>> \o rs : rs \in SeqsUpTo([1..Len(h) -> DedupValues] \cup {<<>>}, MaxRows + 1)}

\* no record at all, or records under a header of one or of two columns
DedupFiles ==
    {<<>>} \cup DedupFilesUnder(<<s_id>>) \cup DedupFilesUnder(<<s_id, s_Product_Code>>)

NoFiles == [p \in {} |-> <<>>]
NoCall == [op |-> "none"]

----------------------------------------------------------------------------
(* The operations as actions.                                              *)

Extract ==
    /\ call = NoCall
    /\ \E column_name \in ColumnRefs, add_quotes \in BOOLEAN :
          call' = [op |-> "extract", column_name |-> column_name,
                   add_quotes |-> add_quotes,
                   out |-> csv_column_to_mysql_tuple(present, records,
                                                     column_name, add_quotes)]
    /\ UNCHANGED <<csv_file, present, records, dirs, files, tables>>

UpdateScript ==
    /\ call = NoCall
    /\ \E table_name \in TableNames :
          call' = [op |-> "update", table_name |-> table_name,
                   out |-> csv_to_mysql_update_script(present, records, table_name)]
    /\ UNCHANGED <<csv_file, present, records, dirs, files, tables>>

SaveToFile ==
    /\ call = NoCall
    /\ \E content \in Contents, output_file \in OutputFiles :
          LET out == save_to_file(content, output_file, dirs, files)
          IN /\ call' = [op |-> "save", content |-> content,
                         output_file |-> output_file, out |-> out, before |-> files]
             /\ dirs' = out.dirs
             /\ files' = out.files
    /\ UNCHANGED <<csv_file, present, records, tables>>

Main ==
    /\ call = NoCall
    /\ \E argv \in {<<>>} \cup {<<csv_file>> \o rest : rest \in SeqsUpTo(Tokens, MaxArgs)} :
          LET out == main(argv, present, records, dirs, files)
          IN /\ call' = [op |-> "main", argv |-> argv, out |-> out, before |-> files]
             /\ dirs' = out.dirs
             /\ files' = out.files
    /\ UNCHANGED <<csv_file, present, records, tables>>

Deduplicate ==
    /\ call = NoCall
    /\ \E output_dir \in OutputDirs, timestamp \in Timestamps :
          LET out == deduplicate_csv(csv_file, output_dir, timestamp,
                                     present, records, dirs, tables)
          IN /\ call' = [op |-> "dedup", output_dir |-> output_dir,
                         timestamp |-> timestamp, out |-> out, before |-> tables]
             /\ dirs' = out.dirs
             /\ tables' = out.tables
    /\ UNCHANGED <<csv_file, present, records, files>>

\* the directories of an input path exist when the file does
InputDirs(input_file, exists) ==
    IF exists /\ dirname(input_file) # <<>> THEN Ancestors(dirname(input_file)) ELSE {}

\* the output files an earlier run may have left
EarlierFiles == {NoFiles, Put(NoFiles, s_output_r_txt, s_x)}
FileDirs(fs) == UNION {Ancestors(dirname(p)) : p \in DOMAIN fs}

\* one run of either tool on one of the sample files
Init ==
    /\ csv_file \in InputFiles
    /\ present \in BOOLEAN
    /\ records \in (IF present THEN SampleFiles ELSE {<<>>})
    /\ files \in EarlierFiles
    /\ dirs = InputDirs(csv_file, present) \cup FileDirs(files)
    /\ tables = NoFiles
    /\ call = NoCall

Next == Extract \/ UpdateScript \/ SaveToFile \/ Main \/ Deduplicate

Spec == Init /\ [][Next]_vars

\* the deduplicator applied to a drawn file
InitDedup ==
    /\ csv_file \in InputFiles
    /\ present \in BOOLEAN
    /\ records \in (IF present THEN DedupFiles ELSE {<<>>})
    /\ dirs = InputDirs(csv_file, present)
    /\ files = NoFiles
    /\ tables = NoFiles
    /\ call = NoCall

NextDedup == Deduplicate

SpecDedup == InitDedup /\ [][NextDedup]_vars

\* the two pure functions of csv_to_mysql.py applied to a drawn file
InitCsv ==
    /\ csv_file = s_test_csv
    /\ present \in BOOLEAN
    /\ records \in (IF present THEN CsvFiles ELSE {<<>>})
    /\ dirs = {}
    /\ files = NoFiles
    /\ tables = NoFiles
    /\ call = NoCall

NextCsv == Extract \/ UpdateScript

SpecCsv == InitCsv /\ [][NextCsv]_vars

----------------------------------------------------------------------------
(* What the claims speak of, stated on the file's records directly.        *)

Header == records[1]
NonBlankRecords ==
    IF records = <<>> THEN <<>> ELSE SelectSeq(Tail(records), LAMBDA r : r # <<>>)
HasHeaderAndRows == present /\ Len(records) >= 2
DistinctNames(h) == \A i, j \in 1..Len(h) : h[i] = h[j] => i = j
IndexOf(h, name) == CHOOSE i \in 1..Len(h) : h[i] = name /\ \A j \in 1..(i - 1) : h[j] # name

\* a reference resolves to a column when it equals the column's name once case and
\* spaces are ignored
Resolves(h, ref) == \E i \in 1..Len(h) : h[i] # <<>> /\ LooseMatch(h[i], ref)
ResolvedIndex(h, ref) ==
    IF \E i \in 1..Len(h) : ExactMatch(h[i], ref)
    THEN CHOOSE i \in 1..Len(h) : ExactMatch(h[i], ref) /\ \A j \in 1..(i - 1) : ~ExactMatch(h[j], ref)
    ELSE CHOOSE i \in 1..Len(h) : LooseMatch(h[i], ref) /\ \A j \in 1..(i - 1) : ~LooseMatch(h[j], ref)

\* the column's trimmed, non-empty values in row order
TrimmedColumn(i) ==
    SelectSeq(Map(SelectSeq(Tail(records), LAMBDA r : Len(r) >= i),
                  LAMBDA r : Strip(r[i])),
              LAMBDA v : v # <<>>)

\* the text between the outer parentheses
Unparen(s) == SubSeq(s, 2, Len(s) - 1)

ExtractedWithoutQuotes ==
    /\ call.op = "extract"
    /\ ~call.add_quotes
    /\ HasHeaderAndRows
    /\ DistinctNames(Header)
    /\ Resolves(Header, call.column_name)
    /\ call.out.ret.t = "str"

C1_Covered ==
    /\ ExtractedWithoutQuotes
    /\ \A k \in 1..Len(TrimmedColumn(ResolvedIndex(Header, call.column_name))) :
           ~Contains(TrimmedColumn(ResolvedIndex(Header, call.column_name))[k], s_sep)

ProductCodeFile ==
    /\ present
    /\ Len(records) >= 2
    /\ Header = <<s_Product_Code>>
    /\ TrimmedColumn(1) # <<>>

\* C2 as stated: with the header `Product Code`, the references `product_code` and
\* `PRODUCT CODE` both resolve to that column, and extract_column returns the same
\* non-absent tuple literal for both.
C2_AsStated ==
    (/\ call.op = "extract"
     /\ ProductCodeFile
     /\ call.column_name \in {s_product_code, s_PRODUCT_CODE}) =>
        call.out.ret = Str(FormatTuple(TrimmedColumn(1), call.add_quotes))

\* C2 amended: with the header `Product Code`, the references `productcode` and
\* `PRODUCT CODE` both resolve to that column and return the same non-absent tuple
\* literal; `product_code` does not resolve (an underscore is no space) and returns
\* None.
C2_CaseAndSpaceInsensitive ==
    (call.op = "extract" /\ ProductCodeFile) =>
        /\ call.column_name \in {s_productcode, s_PRODUCT_CODE} =>
               call.out.ret = Str(FormatTuple(TrimmedColumn(1), call.add_quotes))
        /\ call.column_name = s_product_code =>
               call.out.ret = None /\ call.out.failure = "ColumnNotFound"

\* C2's case: `productcode` resolved against `Product Code` by the second pass
C2_Witness ==
    /\ call.op = "extract"
    /\ ProductCodeFile
    /\ call.column_name = s_productcode
    /\ call.out.ret.t = "str"

----------------------------------------------------------------------------

\* the field of record r under header position i, nothing where r is too short
FieldAt(r, i) == IF i <= Len(r) THEN r[i] ELSE <<>>

\* `<column> = <value>` for every header column except `id`, in header order
ExpectedSetClause(h, r) ==
    Join(Map(SelectSeq([i \in 1..Len(h) |-> i], LAMBDA i : h[i] # s_id),
             LAMBDA i : h[i] \o s_eq \o FieldAt(r, i)),
         s_sep)

\* `Update <table_name> set <set_clause> where id = <id_value>;`
ExpectedLine(h, r, table_name) ==
    s_Update \o table_name \o s_set \o ExpectedSetClause(h, r) \o s_where
        \o FieldAt(r, IndexOf(h, s_id)) \o s_semicolon

ExpectedScript(table_name) ==
    Join(Map(NonBlankRecords, LAMBDA r : ExpectedLine(Header, r, table_name)), s_nl)

UpdatedWithId ==
    /\ call.op = "update"
    /\ present
    /\ records # <<>>
    /\ \E i \in 1..Len(Header) : Header[i] = s_id

Rectangular == \A k \in 1..Len(NonBlankRecords) : Len(NonBlankRecords[k]) = Len(Header)

----------------------------------------------------------------------------

----------------------------------------------------------------------------

\* the records of the input with the later copies of a record removed
FirstOccurrences == <<Header>> \o Unique(NonBlankRecords)

Deduplicated == call.op = "dedup" /\ call.out.exc = "none"

\* C4 as stated: the rows deduplicate writes are exactly the first occurrence of each
\* distinct row, in their original order, under the original header; a header-only
\* input yields the header and no row.
C4_AsStated ==
    Deduplicated => tables[call.out.ret.s] = FirstOccurrences

----------------------------------------------------------------------------

\* C6: when the input file does not exist neither tool writes a file: main never
\* calls save_to_file, and deduplicate raises before it creates a directory or
\* writes.
C6_MissingInputWritesNothing ==
    ~present =>
        /\ call.op = "main" =>
              /\ ~call.out.saved
              /\ ~call.out.printed
              /\ files = call.before
              /\ dirs = FileDirs(call.before)
        /\ call.op = "dedup" =>
              /\ call.out.exc = "FileNotFoundError"
              /\ tables = call.before
              /\ dirs = FileDirs(files)

\* C6's case: main was given an output path and a file that does not exist
C6_Witness ==
    /\ ~present
    /\ call.op = "main"
    /\ call.out.mode = "extract"
    /\ call.out.output_file = Str(s_output_r_txt)
    /\ files = NoFiles

----------------------------------------------------------------------------

\* C7 as stated: for every content and every output path, a bare file name included,
\* save_to_file creates the missing parent directories and leaves the file holding
\* exactly the content, replacing what it held; it never raises.
C7_AsStated ==
    call.op = "save" =>
        /\ call.out.exc = "none"
        /\ Ancestors(dirname(call.output_file)) \ {<<>>} \subseteq dirs
        /\ call.output_file \in DOMAIN files
        /\ files[call.output_file] = call.content

----------------------------------------------------------------------------

\* <input_basename_without_extension>_deduplicated_<YYYYMMDD_HHMMSS>.csv in the
\* input file's directory
ExpectedOutputPath ==
    (IF dirname(csv_file) = <<>> THEN <<>> ELSE dirname(csv_file) \o s_slash)
        \o splitext_root(basename(csv_file)) \o s_deduplicated \o call.timestamp \o s_csv_ext

\* C8 as stated: called without an output directory on an existing input, a path
\* with no directory component included, deduplicate writes the output file into the
\* input file's directory and returns its path.
C8_AsStated ==
    (/\ call.op = "dedup"
     /\ call.output_dir = None
     /\ present
     /\ records # <<>>) =>
        /\ call.out.exc = "none"
        /\ call.out.ret = Str(ExpectedOutputPath)
        /\ ExpectedOutputPath \in DOMAIN tables

----------------------------------------------------------------------------

\* C9 as stated: main prints usage and returns when fewer than 2 arguments are given;
\* with 2 or more arguments, in any combination of column-name words, --no-quotes
\* and an output path, it returns normally, prints the result when there is one, and
\* writes it only when a result exists and an output path was resolved.
C9_AsStated ==
    call.op = "main" =>
        /\ call.out.exc = "none"
        /\ call.out.usage <=> Len(call.argv) < 2
        /\ call.out.printed <=> Truthy(call.out.result)
        /\ call.out.saved => Truthy(call.out.result) /\ Truthy(call.out.output_file)
        /\ ~call.out.saved => files = call.before

----------------------------------------------------------------------------

\* C10: whenever main selects update-script mode, the table name it passes is
\* args[0], and that argument is the text `update_script` in some letter case.
C10_TableNameIsUpdateScript ==
    (call.op = "main" /\ call.out.mode = "update") =>
        /\ call.out.table_name = Str(ArgsOf(call.argv)[1])
        /\ Lower(call.out.table_name.s) = s_update_script

\* C10's case: update-script mode reached with an output path after the word, the
\* script printed
C10_Witness ==
    /\ call.op = "main"
    /\ call.out.mode = "update"
    /\ Len(ArgsOf(call.argv)) = 2
    /\ call.out.printed

====
